---- MODULE Spec2Model ----
(***************************************************************************)
(* The seat allocation engine of the exam seating system                  *)
(* (seating/utils/allocation.py): grouping of the students by             *)
(* (year, section), the half split, the pairing builder, the two room     *)
(* allocators and the driver loop of generate_allocation, one step per    *)
(* room of the room list; and the transaction in which the views          *)
(* (seating/views.py) call it.                                            *)
(***************************************************************************)
EXTENDS Integers, Sequences, FiniteSets, TLC

VARIABLES
    student_queryset,     \* the students handed to generate_allocation
    rooms,                \* the room list, in allocation order
    distribution_strategy,\* "cycle" or "block"
    pc,                   \* position of the run
    persisted,            \* SeatAssignment rows of the allocation in the database
    max_per_group_in_room,
    group_half_queues,    \* group key -> [first, second] half-queues
    next_half_for_group,  \* group key -> "first" | "second"
    seating_assignments,  \* records accumulated by the driver
    pairing_idx,
    group_idx,
    rooms_processed,
    room_idx,             \* 0-based index of the next room of the loop
    available_groups,     \* as recomputed for the last room (line 391)
    pairings,             \* as rebuilt for the last room (line 396)
    room_log,             \* one entry per loop iteration that ran the body
    result,               \* the returned summary
    seed,                 \* the seed argument of generate_allocation
    rng_memo,             \* what random.Random(seed) yielded for this input
    first_run,            \* the seed and the output of an earlier, finished run
    savepoint,            \* rows to restore when transaction.atomic() rolls back
    validated,            \* the validated data of a request to the view
    allocation            \* the Allocation row the view creates

vars == << student_queryset, rooms, distribution_strategy, pc, persisted,
           max_per_group_in_room, group_half_queues, next_half_for_group,
           seating_assignments, pairing_idx, group_idx, rooms_processed,
           room_idx, available_groups, pairings, room_log, result,
           seed, rng_memo, first_run, savepoint, validated, allocation >>

----------------------------------------------------------------------------
(* Bounds of the model *)

\* at most this many students in a run of the general specification
MaxStudents == 4
\* at most this many rooms in the room list
MaxRooms == 2
\* a room has at most this many benches (rows * cols)
MaxBenches == 2
\* students per group when all six groups are populated (SpecSix)
MaxSixSize == 2
\* rooms in the room list when all six groups are populated (SpecSix)
MaxSixRooms == 5
\* at most this many students when the allocation is run twice (SpecRerun)
\* or requested through a view (SpecView)
MaxFewStudents == 3
\* at most this many rooms when the allocation is run twice (SpecRerun)
MaxFewRooms == 2
\* at most this many rooms when rooms outnumber students (SpecPlace)
MaxManyRooms == 4
\* rows and cols of the room handed to an allocator alone (SpecRoom)
MaxGridSide == 3
\* students in a queue handed to an allocator alone (SpecRoom)
MaxQueueLen == 9

----------------------------------------------------------------------------
(* Domains *)

\* Student.YEAR_CHOICES
YEAR_CHOICES == {1, 2, 3}

\* Student.SECTION_CHOICES
SECTION_CHOICES == {"A", "B"}

\* Section labels handed to the pairing builder alone: the two choices and
\* one unusual label, which the builder's fallback is written for.
SectionLabels == {"A", "B", "C"}

\* Python's ordering of the one-letter section strings
ord(sec) == CASE sec = "A" -> 65 [] sec = "B" -> 66 [] sec = "C" -> 67

GroupKeys == YEAR_CHOICES \X SECTION_CHOICES

GroupLabels == YEAR_CHOICES \X SectionLabels

\* Room rows and cols are validated >= 1 by the room form
RoomShapes ==
    { r \in [rows : 1..MaxBenches, cols : 1..MaxBenches] : r.rows * r.cols <= MaxBenches }

\* math.ceil(a / b) for a >= 0, b > 0
ceil_div(a, b) == (a + b - 1) \div b

\* Python's tuple ordering of (year, section) keys
key_lt(g, h) == g[1] < h[1] \/ (g[1] = h[1] /\ ord(g[2]) < ord(h[2]))

RECURSIVE sorted_keys(_)
sorted_keys(S) ==
    IF S = {} THEN << >>
    ELSE LET m == CHOOSE g \in S : \A h \in S \ {g} : key_lt(g, h)
         IN  << m >> \o sorted_keys(S \ {m})

RECURSIVE sorted_sections(_)
sorted_sections(S) ==
    IF S = {} THEN << >>
    ELSE LET m == CHOOSE a \in S : \A b \in S \ {a} : ord(a) < ord(b)
         IN  << m >> \o sorted_sections(S \ {m})

RECURSIVE sorted_ints(_)
sorted_ints(S) ==
    IF S = {} THEN << >>
    ELSE LET m == CHOOSE a \in S : \A b \in S \ {a} : a < b
         IN  << m >> \o sorted_ints(S \ {m})

----------------------------------------------------------------------------
(* build_dynamic_pairings *)

sections_per_year(groups, y) == { g[2] : g \in { h \in groups : h[1] = y } }

preferred_cycle(y1, y2, y3) ==
    << << <<y1, "A">>, <<y2, "B">> >>,
       << <<y2, "B">>, <<y3, "A">> >>,
       << <<y3, "A">>, <<y1, "B">> >>,
       << <<y1, "B">>, <<y2, "A">> >>,
       << <<y2, "A">>, <<y3, "B">> >>,
       << <<y3, "B">>, <<y1, "A">> >> >>

\* the comprehension of lines 54-58
RECURSIVE filter_cycle(_, _)
filter_cycle(cycle, groups) ==
    IF cycle = << >> THEN << >>
    ELSE LET p == Head(cycle)
         IN  (IF p[1] \in groups /\ p[2] \in groups THEN << p >> ELSE << >>)
                 \o filter_cycle(Tail(cycle), groups)

\* the loop of lines 64-70
RECURSIVE fallback_pairings(_, _)
fallback_pairings(cycle, groups) ==
    IF cycle = << >> THEN << >>
    ELSE LET secs1 == sorted_sections(sections_per_year(groups, Head(cycle)[1]))
             secs2 == sorted_sections(sections_per_year(groups, Head(cycle)[2]))
         IN  (IF secs1 = << >> \/ secs2 = << >> THEN << >>
              ELSE << << <<Head(cycle)[1], secs1[1]>>, <<Head(cycle)[2], secs2[1]>> >> >>)
                 \o fallback_pairings(Tail(cycle), groups)

\* the nested loops of lines 80-82
RECURSIVE product_pairings(_, _, _, _, _, _)
product_pairings(y1, secs1, y2, secs2, i, j) ==
    IF i > Len(secs1) THEN << >>
    ELSE IF j > Len(secs2) THEN product_pairings(y1, secs1, y2, secs2, i + 1, 1)
    ELSE << << <<y1, secs1[i]>>, <<y2, secs2[j]>> >> >>
             \o product_pairings(y1, secs1, y2, secs2, i, j + 1)

\* all pairs of distinct keys, in sorted order, whatever their years
RECURSIVE all_pairs(_, _, _)
all_pairs(keys, i, j) ==
    IF i > Len(keys) THEN << >>
    ELSE IF j > Len(keys) THEN all_pairs(keys, i + 1, i + 2)
    ELSE << << keys[i], keys[j] >> >> \o all_pairs(keys, i, j + 1)

\* a pairing builder that forgets, when two years are present, that the two
\* groups of a pair must be of different years
build_dynamic_pairings_same_year(groups, years) ==
    LET ys == sorted_ints(years)
    IN  IF groups = {} \/ years = {} THEN << >>
        ELSE IF Len(ys) = 3 THEN
            LET pref == filter_cycle(preferred_cycle(ys[1], ys[2], ys[3]), groups)
            IN  IF pref # << >> THEN pref
                ELSE fallback_pairings(<< <<ys[1], ys[2]>>, <<ys[2], ys[3]>>, <<ys[3], ys[1]>> >>, groups)
        ELSE IF Len(ys) = 2 THEN all_pairs(sorted_keys(groups), 1, 2)
        ELSE << >>

\* a pairing builder whose two-year loops are nested the other way round
build_dynamic_pairings_swapped(groups, years) ==
    LET ys == sorted_ints(years)
        flip(s) == [ i \in 1..Len(s) |-> << s[i][2], s[i][1] >> ]
    IN  IF groups = {} \/ years = {} THEN << >>
        ELSE IF Len(ys) = 3 THEN
            LET pref == filter_cycle(preferred_cycle(ys[1], ys[2], ys[3]), groups)
            IN  IF pref # << >> THEN pref
                ELSE fallback_pairings(<< <<ys[1], ys[2]>>, <<ys[2], ys[3]>>, <<ys[3], ys[1]>> >>, groups)
        ELSE IF Len(ys) = 2 THEN
            flip(product_pairings(ys[2], sorted_sections(sections_per_year(groups, ys[2])),
                                  ys[1], sorted_sections(sections_per_year(groups, ys[1])), 1, 1))
        ELSE << >>

\* a pairing builder that appends the fallback pairs to the filtered cycle
\* instead of returning the filtered cycle alone
build_dynamic_pairings_no_return(groups, years) ==
    LET ys == sorted_ints(years)
    IN  IF groups = {} \/ years = {} THEN << >>
        ELSE IF Len(ys) = 3 THEN
            filter_cycle(preferred_cycle(ys[1], ys[2], ys[3]), groups)
                \o fallback_pairings(<< <<ys[1], ys[2]>>, <<ys[2], ys[3]>>, <<ys[3], ys[1]>> >>, groups)
        ELSE IF Len(ys) = 2 THEN
            product_pairings(ys[1], sorted_sections(sections_per_year(groups, ys[1])),
                             ys[2], sorted_sections(sections_per_year(groups, ys[2])), 1, 1)
        ELSE << >>

\* a pairing builder without the fallback of lines 60-72
build_dynamic_pairings_no_fallback(groups, years) ==
    LET ys == sorted_ints(years)
    IN  IF groups = {} \/ years = {} THEN << >>
        ELSE IF Len(ys) = 3 THEN filter_cycle(preferred_cycle(ys[1], ys[2], ys[3]), groups)
        ELSE IF Len(ys) = 2 THEN
            product_pairings(ys[1], sorted_sections(sections_per_year(groups, ys[1])),
                             ys[2], sorted_sections(sections_per_year(groups, ys[2])), 1, 1)
        ELSE << >>

\* a pairing builder that, when two years are present, pairs only the first
\* section of each year
build_dynamic_pairings_first_sections(groups, years) ==
    LET ys == sorted_ints(years)
    IN  IF groups = {} \/ years = {} THEN << >>
        ELSE IF Len(ys) = 3 THEN
            LET pref == filter_cycle(preferred_cycle(ys[1], ys[2], ys[3]), groups)
            IN  IF pref # << >> THEN pref
                ELSE fallback_pairings(<< <<ys[1], ys[2]>>, <<ys[2], ys[3]>>, <<ys[3], ys[1]>> >>, groups)
        ELSE IF Len(ys) = 2 THEN fallback_pairings(<< <<ys[1], ys[2]>> >>, groups)
        ELSE << >>

build_dynamic_pairings(groups, years) ==
    LET ys == sorted_ints(years)
    IN  IF groups = {} \/ years = {} THEN << >>
        ELSE IF Len(ys) = 3 THEN
            LET pref == filter_cycle(preferred_cycle(ys[1], ys[2], ys[3]), groups)
            IN  IF pref # << >> THEN pref
                ELSE fallback_pairings(<< <<ys[1], ys[2]>>, <<ys[2], ys[3]>>, <<ys[3], ys[1]>> >>, groups)
        ELSE IF Len(ys) = 2 THEN
            product_pairings(ys[1], sorted_sections(sections_per_year(groups, ys[1])),
                             ys[2], sorted_sections(sections_per_year(groups, ys[2])), 1, 1)
        ELSE << >>

----------------------------------------------------------------------------
(* group_students_by_year_section and the half split *)

\* list(student_queryset.order_by('roll')) restricted to one key: roll is the
\* rank of the student's roll number among the rolls of the input
RECURSIVE order_by_roll(_)
order_by_roll(S) ==
    IF S = {} THEN << >>
    ELSE LET m == CHOOSE s \in S : \A t \in S \ {s} : s.roll < t.roll
         IN  << m >> \o order_by_roll(S \ {m})

grouped_list(students, key) ==
    order_by_roll({ s \in students : << s.year, s.section >> = key })

\* rng.shuffle: every order of the list is a possible outcome
shuffle(list) ==
    { [ i \in 1..Len(list) |-> list[p[i]] ] : p \in Permutations(1..Len(list)) }

\* a block mode that shuffles the whole list of a group
block_orders_whole(list) == shuffle(list)

\* block mode, lines 132-139: the outcomes for one group
block_orders(list) ==
    LET half == ceil_div(Len(list), 2)
    IN  { f \o s : f \in shuffle(SubSeq(list, 1, half)),
                   s \in shuffle(SubSeq(list, half + 1, Len(list))) }

RECURSIVE block_all(_, _)
block_all(keys, grouped) ==
    IF keys = {} THEN { grouped }
    ELSE LET k == CHOOSE g \in keys : TRUE
         IN  UNION { block_all(keys \ {k},
                               [ g \in DOMAIN grouped |-> IF g = k THEN q ELSE grouped[g] ]) :
                       q \in block_orders(grouped[k]) }

\* seed = None
NoSeed == -1

\* a generator that is never seeded
rng_is_seeded_never(sd) == FALSE

\* line 131: random.Random(seed) if seed is not None else random.Random()
rng_is_seeded(sd) == sd # NoSeed

\* nothing drawn yet from a seeded generator
NoMemo == [ set |-> FALSE, seed |-> NoSeed, groups |-> << >> ]

\* the keys of the dicts of a run: the group keys of the students, and the
\* keys of the model's choices, which map to the empty queue when no student
\* has them
group_keys(students) == GroupKeys \cup { << s.year, s.section >> : s \in students }

\* The possible results of the grouping. A key without students is no key of
\* the Python dict; here it maps to the empty queue, which every reader of
\* the dict treats alike (.get(key, {}) / remaining_count = 0).
\* A generator seeded with sd is a function of sd and of the calls made to
\* it: what it yielded before for this input (memo), it yields again.
group_students_by_year_section(students, strategy, sd, memo) ==
    LET keys == group_keys(students)
        grouped == [ key \in keys |-> grouped_list(students, key) ]
    IN  IF strategy = "block"
        THEN IF rng_is_seeded(sd) /\ memo.set /\ memo.seed = sd
             THEN { memo.groups }
             ELSE block_all(keys, grouped)
        ELSE { grouped }

calculate_pre_allocation_metrics(total_students, num_rooms) ==
    LET students_per_room == ceil_div(total_students, num_rooms)
    IN  << students_per_room, ceil_div(students_per_room, 2) >>

\* a split that gives the extra student of an odd queue to the second half
split_halves_floor(dq) ==
    [ first |-> SubSeq(dq, 1, Len(dq) \div 2),
      second |-> SubSeq(dq, (Len(dq) \div 2) + 1, Len(dq)) ]

\* a split that keeps the whole queue in the first half
split_halves_whole(dq) == [ first |-> dq, second |-> << >> ]

\* lines 346-353
split_halves(dq) ==
    LET half == ceil_div(Len(dq), 2)
    IN  [ first |-> SubSeq(dq, 1, half), second |-> SubSeq(dq, half + 1, Len(dq)) ]

remaining_count(ghq, key) == Len(ghq[key].first) + Len(ghq[key].second)

\* a choice of the same half again
other_half_same(h) == h

\* "second" if h == "first" else "first" (lines 367, 438, 456, 474, 476)
other_half(h) == IF h = "first" THEN "second" ELSE "first"

\* returns the queue and the half used ("none" for Python's None)
pick_half_queue(ghq, key, preferred_half) ==
    LET primary == ghq[key][preferred_half]
        secondary_key == other_half(preferred_half)
        secondary == ghq[key][secondary_key]
    IN  IF Len(primary) > 0 THEN [ queue |-> primary, half |-> preferred_half ]
        ELSE IF Len(secondary) > 0 THEN [ queue |-> secondary, half |-> secondary_key ]
        ELSE [ queue |-> << >>, half |-> "none" ]

----------------------------------------------------------------------------
(* allocate_room_seats and allocate_room_seats_single_year *)

\* a bench count that runs one past the room
total_benches_one_more(room) == room.rows * room.cols + 1

total_benches(room) == room.rows * room.cols

\* the rest of a deque after popleft()
popleft_rest_keep(dq) == dq

\* the rest of a deque after pop(), which removes the last element
pop_rest(dq) == SubSeq(dq, 1, Len(dq) - 1)

popleft_rest(dq) == Tail(dq)

\* a record that carries row 1 whatever the bench
SeatAssignment_first_row(room_no, room, bench_no, seat_pos, bench_type, student) ==
    [ room |-> room_no, bench_no |-> bench_no, seat_pos |-> seat_pos,
      bench_type |-> bench_type, student |-> student,
      row |-> 1,
      column |-> ((bench_no - 1) \div room.rows) + 1,
      position |-> seat_pos ]

\* a record whose benches are numbered row-wise
SeatAssignment_row_wise(room_no, room, bench_no, seat_pos, bench_type, student) ==
    [ room |-> room_no, bench_no |-> bench_no, seat_pos |-> seat_pos,
      bench_type |-> bench_type, student |-> student,
      row |-> ((bench_no - 1) \div room.cols) + 1,
      column |-> ((bench_no - 1) % room.cols) + 1,
      position |-> seat_pos ]

SeatAssignment(room_no, room, bench_no, seat_pos, bench_type, student) ==
    [ room |-> room_no, bench_no |-> bench_no, seat_pos |-> seat_pos,
      bench_type |-> bench_type, student |-> student,
      row |-> ((bench_no - 1) % room.rows) + 1,
      column |-> ((bench_no - 1) \div room.rows) + 1,
      position |-> seat_pos ]

min(a, b) == IF a < b THEN a ELSE b

\* the for loop of lines 188-227; st = the locals it updates
RECURSIVE room_seats_loop(_, _, _, _, _, _, _)
room_seats_loop(room_no, room, bench_type, limit1, limit2, st, bench_no) ==
    IF bench_no > total_benches(room) THEN st
    ELSE IF st.group1_count >= limit1 /\ st.group2_count >= limit2 THEN st
    ELSE
        LET st1 ==
                IF st.group1_deque # << >> /\ st.group1_count < limit1
                THEN [ st EXCEPT
                         !.assignments = Append(@, SeatAssignment(room_no, room, bench_no,
                                                    "left", bench_type, Head(st.group1_deque))),
                         !.group1_deque = popleft_rest(@),
                         !.group1_count = @ + 1 ]
                ELSE st
            st2 ==
                IF st1.group2_deque # << >> /\ st1.group2_count < limit2
                THEN [ st1 EXCEPT
                         !.assignments = Append(@, SeatAssignment(room_no, room, bench_no,
                                                    "right", bench_type, Head(st1.group2_deque))),
                         !.group2_deque = popleft_rest(@),
                         !.group2_count = @ + 1 ]
                ELSE st1
        IN  room_seats_loop(room_no, room, bench_type, limit1, limit2, st2, bench_no + 1)

\* an allocator that caps a given room limit by max_per_group_in_room
allocate_room_seats_capped(room_no, room, group1_deque, group2_deque, bench_type, max_per_group, group1_room_limit, group2_room_limit) ==
    room_seats_loop(room_no, room, bench_type,
                    min(max_per_group, Len(group1_deque)), min(max_per_group, Len(group2_deque)),
                    [ assignments |-> << >>,
                      group1_deque |-> group1_deque, group2_deque |-> group2_deque,
                      group1_count |-> 0, group2_count |-> 0 ], 1)

\* a limit of -1 stands for None
allocate_room_seats(room_no, room, group1_deque, group2_deque, bench_type, max_per_group, group1_room_limit, group2_room_limit) ==
    LET limit1 == IF group1_room_limit = -1 THEN max_per_group
                  ELSE min(group1_room_limit, Len(group1_deque))
        limit2 == IF group2_room_limit = -1 THEN max_per_group
                  ELSE min(group2_room_limit, Len(group2_deque))
    IN  room_seats_loop(room_no, room, bench_type, limit1, limit2,
                        [ assignments |-> << >>,
                          group1_deque |-> group1_deque, group2_deque |-> group2_deque,
                          group1_count |-> 0, group2_count |-> 0 ], 1)

\* the for loop of lines 252-275
RECURSIVE single_year_loop(_, _, _, _, _, _)
single_year_loop(room_no, room, bench_type, room_limit, st, bench_no) ==
    IF bench_no > total_benches(room) THEN st
    ELSE IF st.year_deque = << >> THEN st
    ELSE IF room_limit # -1 /\ st.used >= room_limit THEN st
    ELSE single_year_loop(room_no, room, bench_type, room_limit,
             [ st EXCEPT
                 !.assignments = Append(@, SeatAssignment(room_no, room, bench_no,
                                            "left", bench_type, Head(st.year_deque))),
                 !.year_deque = popleft_rest(@),
                 !.used = @ + 1 ],
             bench_no + 1)

\* student = None
NoStudent == [ year |-> 0, section |-> "-", roll |-> 0 ]

\* the right seats of the benches 1..n, as records without a student
RECURSIVE empty_right_seats(_, _, _, _)
empty_right_seats(room_no, room, bench_type, n) ==
    IF n = 0 THEN << >>
    ELSE Append(empty_right_seats(room_no, room, bench_type, n - 1),
                SeatAssignment(room_no, room, n, "right", bench_type, NoStudent))

\* a single-year allocator that stores a row for the empty right seat of
\* every bench it uses
allocate_room_seats_single_year_empty_rows(room_no, room, year_deque, bench_type, room_limit) ==
    LET out == single_year_loop(room_no, room, bench_type, room_limit,
                   [ assignments |-> << >>, year_deque |-> year_deque, used |-> 0 ], 1)
    IN  [ out EXCEPT !.assignments = @ \o empty_right_seats(room_no, room, bench_type, out.used) ]

allocate_room_seats_single_year(room_no, room, year_deque, bench_type, room_limit) ==
    single_year_loop(room_no, room, bench_type, room_limit,
                     [ assignments |-> << >>, year_deque |-> year_deque, used |-> 0 ], 1)

----------------------------------------------------------------------------
(* generate_allocation: the driver *)

bench_types == << "A", "B", "C" >>

NoGroup == << 0, "-" >>

total_remaining(ghq) ==
    LET RECURSIVE sum(_)
        sum(keys) == IF keys = << >> THEN 0
                     ELSE remaining_count(ghq, Head(keys)) + sum(Tail(keys))
    IN  sum(sorted_keys(DOMAIN ghq))

\* the search of lines 411-416
RECURSIVE select_group(_, _, _, _)
select_group(group_order, gidx, ghq, n) ==
    IF n = 0 THEN [ selected |-> NoGroup, group_idx |-> gidx ]
    ELSE LET candidate == group_order[(gidx % Len(group_order)) + 1]
         IN  IF remaining_count(ghq, candidate) > 0
             THEN [ selected |-> candidate, group_idx |-> gidx + 1 ]
             ELSE select_group(group_order, gidx + 1, ghq, n - 1)

\* the search of lines 444-450; -1 stands for None
RECURSIVE select_pairing(_, _, _, _)
select_pairing(prs, pidx, ghq, i) ==
    IF i >= Len(prs) THEN -1
    ELSE LET idx == (pidx + i) % Len(prs)
         IN  IF remaining_count(ghq, prs[idx + 1][1]) > 0
                /\ remaining_count(ghq, prs[idx + 1][2]) > 0
             THEN idx
             ELSE select_pairing(prs, pidx, ghq, i + 1)

\* writes a drained half-queue back (the deque is shared with the dict)
put_half(ghq, key, half, dq) ==
    IF half = "none" THEN ghq ELSE [ ghq EXCEPT ![key][half] = dq ]

\* a pointer that is never toggled
toggle_never(nh, key, half) == nh

\* lines 437-438, 473-476
toggle(nh, key, half) ==
    IF half = "none" THEN nh ELSE [ nh EXCEPT ![key] = other_half(half) ]

\* the test of lines 385-386
no_students_remaining_never(ghq) == FALSE

no_students_remaining(ghq) == total_remaining(ghq) = 0

\* rows of an earlier run of the same allocation, present before the call
OldAssignments ==
    << [ room |-> 1, bench_no |-> 1, seat_pos |-> "left", bench_type |-> "A",
         student |-> [ year |-> 1, section |-> "A", roll |-> 1 ],
         row |-> 1, column |-> 1, position |-> "left" ] >>

\* the students of a run whose group key has sizes[key] students; roll is
\* the rank of the student's roll number within the group
students_of(sizes) ==
    UNION { { [ year |-> k[1], section |-> k[2], roll |-> i ] : i \in 1..sizes[k] } :
              k \in DOMAIN sizes }

RECURSIVE sum_sizes(_, _)
sum_sizes(sizes, keys) ==
    IF keys = {} THEN 0
    ELSE LET k == CHOOSE g \in keys : TRUE
         IN  sizes[k] + sum_sizes(sizes, keys \ {k})

RoomLists == UNION { [ 1..n -> RoomShapes ] : n \in 0..MaxRooms }

\* a call that comes from no request
NoRequest == [ random_seed |-> NoSeed ]

\* no Allocation row
NoAllocation == [ random_seed |-> NoSeed ]

\* no earlier run
NoRun == [ done |-> FALSE, seed |-> NoSeed, records |-> << >> ]

InitRun ==
    /\ pc = "start"
    /\ persisted = OldAssignments
    /\ rng_memo = NoMemo
    /\ first_run = NoRun
    /\ savepoint = << >>
    /\ validated = NoRequest
    /\ allocation = NoAllocation
    /\ max_per_group_in_room = 0
    /\ group_half_queues = [ key \in GroupKeys |-> [ first |-> << >>, second |-> << >> ] ]
    /\ next_half_for_group = [ key \in GroupKeys |-> "first" ]
    /\ seating_assignments = << >>
    /\ pairing_idx = 0
    /\ group_idx = 0
    /\ rooms_processed = 0
    /\ room_idx = 0
    /\ available_groups = {}
    /\ pairings = << >>
    /\ room_log = << >>
    /\ result = [ returned |-> FALSE, total_seats |-> 0, rooms_processed |-> 0 ]

Init ==
    /\ \E sizes \in [ GroupKeys -> 0..MaxStudents ] :
          /\ sum_sizes(sizes, GroupKeys) <= MaxStudents
          /\ student_queryset = students_of(sizes)
    /\ rooms \in RoomLists
    /\ distribution_strategy \in { "cycle", "block" }
    /\ seed = NoSeed
    /\ InitRun

\* a start that leaves the old rows in place
delete_old_keep(rows) == rows

\* line 325: SeatAssignment.objects.filter(allocation=allocation).delete()
delete_old(rows) == << >>

\* lines 322-381: up to the loop
Start ==
    /\ pc = "start"
    /\ persisted' = delete_old(persisted)
    /\ LET total_students == Cardinality(student_queryset)
           num_rooms == Len(rooms)
       IN  IF total_students = 0 \/ num_rooms = 0
           THEN /\ pc' = "done"
                /\ result' = [ returned |-> TRUE, total_seats |-> 0, rooms_processed |-> 0 ]
                /\ UNCHANGED << max_per_group_in_room, group_half_queues,
                                next_half_for_group, rng_memo >>
           ELSE /\ pc' = "loop"
                /\ max_per_group_in_room' =
                       calculate_pre_allocation_metrics(total_students, num_rooms)[2]
                /\ \E student_groups \in
                        group_students_by_year_section(student_queryset, distribution_strategy,
                                                       seed, rng_memo) :
                      /\ group_half_queues' =
                             [ key \in DOMAIN student_groups |->
                                   split_halves(student_groups[key]) ]
                      /\ next_half_for_group' =
                             [ key \in DOMAIN student_groups |-> "first" ]
                      /\ rng_memo' =
                             IF distribution_strategy = "block" /\ rng_is_seeded(seed)
                             THEN [ set |-> TRUE, seed |-> seed, groups |-> student_groups ]
                             ELSE rng_memo
                /\ UNCHANGED result
    /\ UNCHANGED << student_queryset, rooms, distribution_strategy,
                    seating_assignments, pairing_idx, group_idx, rooms_processed,
                    room_idx, available_groups, pairings, room_log,
                    seed, first_run, savepoint, validated, allocation >>

\* lines 485-492: bulk create and return
Finish ==
    /\ pc' = "done"
    /\ persisted' = IF seating_assignments # << >> THEN seating_assignments ELSE persisted
    /\ result' = [ returned |-> TRUE, total_seats |-> Len(seating_assignments),
                   rooms_processed |-> rooms_processed ]
    /\ UNCHANGED << student_queryset, rooms, distribution_strategy, max_per_group_in_room,
                    group_half_queues, next_half_for_group, seating_assignments,
                    pairing_idx, group_idx, rooms_processed, room_idx,
                    available_groups, pairings, room_log,
                    seed, rng_memo, first_run, savepoint, validated, allocation >>

\* lines 385-388: no student remains before a room
LoopBreak ==
    /\ pc = "loop"
    /\ room_idx < Len(rooms)
    /\ no_students_remaining(group_half_queues)
    /\ Finish

\* the room list is exhausted
LoopEnd ==
    /\ pc = "loop"
    /\ room_idx = Len(rooms)
    /\ Finish

\* lines 402-438: the body of the loop when one year remains.
\* The result holds the locals the body leaves behind.
single_year_room(room_no, room, bench_type, groups, ghq, nh, gidx, pidx) ==
    LET group_order == sorted_keys(groups)
        sel == select_group(group_order, gidx, ghq, Len(group_order))
        skip(g) == [ mode |-> "skip", ghq |-> ghq, nh |-> nh, group_idx |-> g,
                     pairing_idx |-> pidx, room_assignments |-> << >>,
                     group1 |-> NoGroup, group2 |-> NoGroup,
                     g1_pref |-> "none", g2_pref |-> "none",
                     g1_half |-> "none", g2_half |-> "none",
                     selected_pair_idx |-> -1, group1_used |-> 0, group2_used |-> 0,
                     group1_remaining |-> 0, group2_remaining |-> 0 ]
    IN  IF group_order = << >> THEN skip(gidx)
        ELSE IF sel.selected = NoGroup THEN skip(sel.group_idx)
        ELSE
            LET selected_group == sel.selected
                preferred_half == nh[selected_group]
                picked == pick_half_queue(ghq, selected_group, preferred_half)
                room_limit == Len(picked.queue)
                out == allocate_room_seats_single_year(room_no, room, picked.queue,
                                                       bench_type, room_limit)
            IN  [ mode |-> "single",
                  ghq |-> put_half(ghq, selected_group, picked.half, out.year_deque),
                  nh |-> toggle(nh, selected_group, picked.half),
                  group_idx |-> sel.group_idx, pairing_idx |-> pidx,
                  room_assignments |-> out.assignments,
                  group1 |-> selected_group, group2 |-> NoGroup,
                  g1_pref |-> preferred_half, g2_pref |-> "none",
                  g1_half |-> picked.half, g2_half |-> "none",
                  selected_pair_idx |-> -1, group1_used |-> out.used, group2_used |-> 0,
                  group1_remaining |-> room_limit, group2_remaining |-> 0 ]

\* lines 439-476: the body of the loop otherwise
multi_year_room(room_no, room, bench_type, prs, ghq, nh, gidx, pidx, max_per_group) ==
    LET selected_pair_idx == select_pairing(prs, pidx, ghq, 0)
    IN  IF selected_pair_idx = -1
        THEN [ mode |-> "skip", ghq |-> ghq, nh |-> nh, group_idx |-> gidx,
               pairing_idx |-> pidx, room_assignments |-> << >>,
               group1 |-> NoGroup, group2 |-> NoGroup,
               g1_pref |-> "none", g2_pref |-> "none",
               g1_half |-> "none", g2_half |-> "none",
               selected_pair_idx |-> -1, group1_used |-> 0, group2_used |-> 0,
               group1_remaining |-> 0, group2_remaining |-> 0 ]
        ELSE
            LET group1_key == prs[selected_pair_idx + 1][1]
                group2_key == prs[selected_pair_idx + 1][2]
                g1_pref == nh[group1_key]
                g2_pref == other_half(g1_pref)
                p1 == pick_half_queue(ghq, group1_key, g1_pref)
                p2 == pick_half_queue(ghq, group2_key, g2_pref)
                out == allocate_room_seats(room_no, room, p1.queue, p2.queue, bench_type,
                                           max_per_group, Len(p1.queue), Len(p2.queue))
            IN  [ mode |-> "pair",
                  ghq |-> put_half(put_half(ghq, group1_key, p1.half, out.group1_deque),
                                   group2_key, p2.half, out.group2_deque),
                  nh |-> toggle(toggle(nh, group1_key, p1.half), group2_key, p2.half),
                  group_idx |-> gidx,
                  pairing_idx |-> (selected_pair_idx + 1) % Len(prs),
                  room_assignments |-> out.assignments,
                  group1 |-> group1_key, group2 |-> group2_key,
                  g1_pref |-> g1_pref, g2_pref |-> g2_pref,
                  g1_half |-> p1.half, g2_half |-> p2.half,
                  selected_pair_idx |-> selected_pair_idx,
                  group1_used |-> out.group1_count, group2_used |-> out.group2_count,
                  group1_remaining |-> Len(p1.queue), group2_remaining |-> Len(p2.queue) ]

\* a count of every room the loop visits
count_room_always(processed, room_assignments) == processed + 1

\* lines 478-483: only a room with assignments is counted
count_room(processed, room_assignments) ==
    IF room_assignments # << >> THEN processed + 1 ELSE processed

\* lines 383-483: one iteration of the loop that runs the body
ProcessRoom ==
    /\ pc = "loop"
    /\ room_idx < Len(rooms)
    /\ ~ no_students_remaining(group_half_queues)
    /\ LET room_no == room_idx + 1
           room == rooms[room_no]
           ghq == group_half_queues
           groups == { k \in DOMAIN ghq : remaining_count(ghq, k) > 0 }
           years == { k[1] : k \in groups }
           prs == build_dynamic_pairings(groups, years)
           bench_type == bench_types[(room_idx % Len(bench_types)) + 1]
       IN  \E out \in { IF Cardinality(years) = 1
                          THEN single_year_room(room_no, room, bench_type, groups, ghq,
                                                next_half_for_group, group_idx, pairing_idx)
                          ELSE multi_year_room(room_no, room, bench_type, prs, ghq,
                                               next_half_for_group, group_idx, pairing_idx,
                                               max_per_group_in_room) } :
           /\ available_groups' = groups
           /\ pairings' = prs
           /\ group_half_queues' = out.ghq
           /\ next_half_for_group' = out.nh
           /\ group_idx' = out.group_idx
           /\ pairing_idx' = out.pairing_idx
           /\ seating_assignments' = seating_assignments \o out.room_assignments
           /\ rooms_processed' = count_room(rooms_processed, out.room_assignments)
           /\ room_log' = Append(room_log,
                  [ room |-> room_no, mode |-> out.mode, pairings |-> prs,
                    group1 |-> out.group1, group2 |-> out.group2,
                    g1_pref |-> out.g1_pref, g2_pref |-> out.g2_pref,
                    g1_half |-> out.g1_half, g2_half |-> out.g2_half,
                    selected_pair_idx |-> out.selected_pair_idx,
                    group1_used |-> out.group1_used, group2_used |-> out.group2_used,
                    group1_remaining |-> out.group1_remaining,
                    group2_remaining |-> out.group2_remaining,
                    remaining_before |-> [ k \in DOMAIN ghq |-> remaining_count(ghq, k) ],
                    next_half_before |-> next_half_for_group ])
    /\ room_idx' = room_idx + 1
    /\ UNCHANGED << student_queryset, rooms, distribution_strategy, pc, persisted,
                    max_per_group_in_room, result,
                    seed, rng_memo, first_run, savepoint, validated, allocation >>

Next == Start \/ ProcessRoom \/ LoopBreak \/ LoopEnd

Spec == Init /\ [][Next]_vars

----------------------------------------------------------------------------
(* The pairing builder on its own: every set of group keys over the years   *)
(* and the section labels, with the years derived as the driver derives     *)
(* them (line 392).                                                         *)

InitPairings ==
    /\ pc = "pairings_input"
    /\ available_groups \in SUBSET GroupLabels
    /\ student_queryset = {}
    /\ rooms = << >>
    /\ distribution_strategy = "cycle"
    /\ persisted = << >>
    /\ max_per_group_in_room = 0
    /\ group_half_queues = [ key \in GroupKeys |-> [ first |-> << >>, second |-> << >> ] ]
    /\ next_half_for_group = [ key \in GroupKeys |-> "first" ]
    /\ seating_assignments = << >>
    /\ pairing_idx = 0
    /\ group_idx = 0
    /\ rooms_processed = 0
    /\ room_idx = 0
    /\ pairings = << >>
    /\ room_log = << >>
    /\ result = [ returned |-> FALSE, total_seats |-> 0, rooms_processed |-> 0 ]
    /\ seed = NoSeed
    /\ rng_memo = NoMemo
    /\ first_run = NoRun
    /\ savepoint = << >>
    /\ validated = NoRequest
    /\ allocation = NoAllocation

BuildPairings ==
    /\ pc = "pairings_input"
    /\ pc' = "pairings_built"
    /\ pairings' = build_dynamic_pairings(available_groups, { g[1] : g \in available_groups })
    /\ UNCHANGED << student_queryset, rooms, distribution_strategy, persisted,
                    max_per_group_in_room, group_half_queues, next_half_for_group,
                    seating_assignments, pairing_idx, group_idx, rooms_processed,
                    room_idx, available_groups, room_log, result,
                    seed, rng_memo, first_run, savepoint, validated, allocation >>

SpecPairings == InitPairings /\ [][BuildPairings]_vars

----------------------------------------------------------------------------
(* All six groups populated *)

\* room lists as GenerateAllocationView builds them: rooms of equal dimensions
UniformRoomLists ==
    { [ i \in 1..n |-> shape ] : n \in 0..MaxSixRooms, shape \in RoomShapes }

InitSix ==
    /\ \E sizes \in [ GroupKeys -> 1..MaxSixSize ] : student_queryset = students_of(sizes)
    /\ rooms \in UniformRoomLists
    /\ distribution_strategy \in { "cycle", "block" }
    /\ seed = NoSeed
    /\ InitRun

SpecSix == InitSix /\ [][Next]_vars

----------------------------------------------------------------------------
(* Students of any stored year: Student.year is an integer column, and the   *)
(* allocator takes the years as it finds them.                               *)

YearValues == 1..4

InitAnyYear ==
    /\ \E sizes \in [ YearValues \X SECTION_CHOICES -> 0..1 ] :
          /\ sum_sizes(sizes, YearValues \X SECTION_CHOICES) <= MaxStudents
          /\ student_queryset = students_of(sizes)
    /\ rooms \in RoomLists
    /\ distribution_strategy \in { "cycle", "block" }
    /\ seed = NoSeed
    /\ InitRun

SpecAnyYear == InitAnyYear /\ [][Next]_vars

----------------------------------------------------------------------------
(* Two independent runs over the same student list and room list: when the   *)
(* first run has returned, generate_allocation is called again, with a seed  *)
(* of the caller's choice.                                                   *)

\* the integer seeds of the model
Seeds == { 0, 7 }

\* room lists of equal rooms, as GenerateAllocationView builds them
FewRoomLists ==
    { [ i \in 1..n |-> shape ] : n \in 0..MaxFewRooms, shape \in RoomShapes }

InitRerun ==
    /\ \E sizes \in [ GroupKeys -> 0..MaxFewStudents ] :
          /\ sum_sizes(sizes, GroupKeys) <= MaxFewStudents
          /\ student_queryset = students_of(sizes)
    /\ rooms \in FewRoomLists
    /\ distribution_strategy \in { "cycle", "block" }
    /\ seed \in Seeds \cup { NoSeed }
    /\ InitRun

\* the second call: every local of the run is constructed afresh
Rerun ==
    /\ pc = "done"
    /\ ~ first_run.done
    /\ first_run' = [ done |-> TRUE, seed |-> seed, records |-> seating_assignments ]
    /\ seed' \in Seeds \cup { NoSeed }
    /\ pc' = "start"
    /\ max_per_group_in_room' = 0
    /\ group_half_queues' = [ key \in GroupKeys |-> [ first |-> << >>, second |-> << >> ] ]
    /\ next_half_for_group' = [ key \in GroupKeys |-> "first" ]
    /\ seating_assignments' = << >>
    /\ pairing_idx' = 0
    /\ group_idx' = 0
    /\ rooms_processed' = 0
    /\ room_idx' = 0
    /\ available_groups' = {}
    /\ pairings' = << >>
    /\ room_log' = << >>
    /\ result' = [ returned |-> FALSE, total_seats |-> 0, rooms_processed |-> 0 ]
    /\ UNCHANGED << student_queryset, rooms, distribution_strategy, persisted,
                    rng_memo, savepoint, validated, allocation >>

NextRerun == Start \/ ProcessRoom \/ LoopBreak \/ LoopEnd \/ Rerun

SpecRerun == InitRerun /\ [][NextRerun]_vars

\* a second call over the same students and rooms with any strategy and any
\* seed: every local of the run is constructed afresh
RerunAny ==
    /\ pc = "done"
    /\ ~ first_run.done
    /\ first_run' = [ done |-> TRUE, seed |-> seed, records |-> seating_assignments,
                      strategy |-> distribution_strategy ]
    /\ distribution_strategy' \in { "cycle", "block" }
    /\ seed' \in Seeds \cup { NoSeed }
    /\ pc' = "start"
    /\ max_per_group_in_room' = 0
    /\ group_half_queues' = [ key \in GroupKeys |-> [ first |-> << >>, second |-> << >> ] ]
    /\ next_half_for_group' = [ key \in GroupKeys |-> "first" ]
    /\ seating_assignments' = << >>
    /\ pairing_idx' = 0
    /\ group_idx' = 0
    /\ rooms_processed' = 0
    /\ room_idx' = 0
    /\ available_groups' = {}
    /\ pairings' = << >>
    /\ room_log' = << >>
    /\ result' = [ returned |-> FALSE, total_seats |-> 0, rooms_processed |-> 0 ]
    /\ UNCHANGED << student_queryset, rooms, persisted, rng_memo, savepoint, validated, allocation >>

NextCompare == Start \/ ProcessRoom \/ LoopBreak \/ LoopEnd \/ RerunAny

SpecCompare == InitRerun /\ [][NextCompare]_vars

----------------------------------------------------------------------------
(* A request to GenerateAllocationView.post or allocation_form_view: the     *)
(* clearing of the exam's rows, the creation of rooms and allocation and the *)
(* call of generate_allocation all run inside one transaction.atomic()       *)
(* block; an exception raised inside it rolls the transaction back and is    *)
(* caught outside the block.                                                 *)

\* a rollback that restores nothing
rollback_none(saved, current) == current

\* leaving transaction.atomic() by an exception
rollback(saved, current) == saved

InitView ==
    /\ \E sizes \in [ GroupKeys -> 0..MaxFewStudents ] :
          /\ sum_sizes(sizes, GroupKeys) <= MaxFewStudents
          /\ student_queryset = students_of(sizes)
    /\ rooms \in RoomLists
    /\ distribution_strategy \in { "cycle", "block" }
    /\ seed = NoSeed
    /\ pc = "view"
    /\ persisted = OldAssignments
    /\ rng_memo = NoMemo
    /\ first_run = NoRun
    /\ savepoint = << >>
    /\ validated = NoRequest
    /\ allocation = NoAllocation
    /\ max_per_group_in_room = 0
    /\ group_half_queues = [ key \in GroupKeys |-> [ first |-> << >>, second |-> << >> ] ]
    /\ next_half_for_group = [ key \in GroupKeys |-> "first" ]
    /\ seating_assignments = << >>
    /\ pairing_idx = 0
    /\ group_idx = 0
    /\ rooms_processed = 0
    /\ room_idx = 0
    /\ available_groups = {}
    /\ pairings = << >>
    /\ room_log = << >>
    /\ result = [ returned |-> FALSE, total_seats |-> 0, rooms_processed |-> 0 ]

run_vars == << student_queryset, rooms, distribution_strategy, max_per_group_in_room,
               group_half_queues, next_half_for_group, seating_assignments,
               pairing_idx, group_idx, rooms_processed, room_idx, available_groups,
               pairings, room_log, result, seed, rng_memo, first_run,
               validated, allocation >>

\* views.py line 198 / 715: with transaction.atomic()
EnterAtomic ==
    /\ pc = "view"
    /\ pc' = "view_delete"
    /\ savepoint' = persisted
    /\ UNCHANGED << persisted, run_vars >>

\* views.py lines 200-230 / 716-752: the rows of the exam are deleted, rooms
\* and allocation created; generate_allocation is called next
ViewDelete ==
    /\ pc = "view_delete"
    /\ pc' = "start"
    /\ persisted' = << >>
    /\ UNCHANGED << savepoint, run_vars >>

\* an exception raised anywhere inside the block before the bulk insert
Abort ==
    /\ pc \in { "view_delete", "start", "loop" }
    /\ pc' = "rolled_back"
    /\ persisted' = rollback(savepoint, persisted)
    /\ UNCHANGED << savepoint, run_vars >>

\* bulk_create (line 487) fails after writing some of the rows
BulkCreateFails ==
    /\ pc = "loop"
    /\ room_idx = Len(rooms) \/ no_students_remaining(group_half_queues)
    /\ seating_assignments # << >>
    /\ \E n \in 0..(Len(seating_assignments) - 1) :
          persisted' = rollback(savepoint, SubSeq(seating_assignments, 1, n))
    /\ pc' = "rolled_back"
    /\ UNCHANGED << savepoint, run_vars >>

\* an exception raised after generate_allocation returned, still inside the block
AbortAfterReturn ==
    /\ pc = "done"
    /\ pc' = "rolled_back"
    /\ persisted' = rollback(savepoint, persisted)
    /\ UNCHANGED << savepoint, run_vars >>

\* the block is left normally: commit
ExitAtomic ==
    /\ pc = "done"
    /\ pc' = "committed"
    /\ UNCHANGED << persisted, savepoint, run_vars >>

NextView ==
    \/ EnterAtomic \/ ViewDelete \/ Start \/ ProcessRoom \/ LoopBreak \/ LoopEnd
    \/ Abort \/ BulkCreateFails \/ AbortAfterReturn \/ ExitAtomic

SpecView == InitView /\ [][NextView]_vars

----------------------------------------------------------------------------
(* A request to GenerateAllocationView.post that carries random_seed, and    *)
(* the same request sent again. The serializer's IntegerField hands the view *)
(* an int, or None when the field is null.                                   *)

\* Python truthiness of an int or None: None and 0 are false
truthy(sd) == sd # NoSeed /\ sd # 0

\* views.py lines 226 and 240: int(seed) if seed else None
int_if_truthy(sd) == IF truthy(sd) THEN sd ELSE NoSeed

InitPost ==
    /\ \E sizes \in [ GroupKeys -> 0..MaxFewStudents ] :
          /\ sum_sizes(sizes, GroupKeys) <= MaxFewStudents
          /\ student_queryset = students_of(sizes)
    /\ rooms \in FewRoomLists
    /\ distribution_strategy \in { "cycle", "block" }
    /\ validated \in [ random_seed : Seeds \cup { NoSeed } ]
    /\ allocation = NoAllocation
    /\ seed = NoSeed
    /\ pc = "post"
    /\ persisted = OldAssignments
    /\ rng_memo = NoMemo
    /\ first_run = NoRun
    /\ savepoint = << >>
    /\ max_per_group_in_room = 0
    /\ group_half_queues = [ key \in GroupKeys |-> [ first |-> << >>, second |-> << >> ] ]
    /\ next_half_for_group = [ key \in GroupKeys |-> "first" ]
    /\ seating_assignments = << >>
    /\ pairing_idx = 0
    /\ group_idx = 0
    /\ rooms_processed = 0
    /\ room_idx = 0
    /\ available_groups = {}
    /\ pairings = << >>
    /\ room_log = << >>
    /\ result = [ returned |-> FALSE, total_seats |-> 0, rooms_processed |-> 0 ]

\* views.py lines 184-241: the rows of the exam are deleted, the Allocation
\* is created and generate_allocation is called
Post ==
    /\ pc = "post"
    /\ pc' = "start"
    /\ persisted' = << >>
    /\ allocation' = [ random_seed |-> int_if_truthy(validated.random_seed) ]
    /\ seed' = int_if_truthy(validated.random_seed)
    /\ UNCHANGED << student_queryset, rooms, distribution_strategy,
                    max_per_group_in_room, group_half_queues, next_half_for_group,
                    seating_assignments, pairing_idx, group_idx, rooms_processed,
                    room_idx, available_groups, pairings, room_log, result,
                    rng_memo, first_run, savepoint, validated >>

\* the same request once more, after the first has been answered
PostAgain ==
    /\ pc = "done"
    /\ ~ first_run.done
    /\ first_run' = [ done |-> TRUE, seed |-> seed, records |-> seating_assignments,
                      strategy |-> distribution_strategy ]
    /\ pc' = "post"
    /\ max_per_group_in_room' = 0
    /\ group_half_queues' = [ key \in GroupKeys |-> [ first |-> << >>, second |-> << >> ] ]
    /\ next_half_for_group' = [ key \in GroupKeys |-> "first" ]
    /\ seating_assignments' = << >>
    /\ pairing_idx' = 0
    /\ group_idx' = 0
    /\ rooms_processed' = 0
    /\ room_idx' = 0
    /\ available_groups' = {}
    /\ pairings' = << >>
    /\ room_log' = << >>
    /\ result' = [ returned |-> FALSE, total_seats |-> 0, rooms_processed |-> 0 ]
    /\ UNCHANGED << student_queryset, rooms, distribution_strategy, persisted,
                    seed, rng_memo, savepoint, validated, allocation >>

NextPost == Post \/ Start \/ ProcessRoom \/ LoopBreak \/ LoopEnd \/ PostAgain

SpecPost == InitPost /\ [][NextPost]_vars

----------------------------------------------------------------------------
(* Runs of few students over room lists long enough to give every student a *)
(* room. The loop of lines 383-483 is a for loop of one sequential call, so  *)
(* the run does not stop before its return: RunsOn is weak fairness of the   *)
(* loop's exit and of Next, the latter with ENABLED <<Next>>_vars written as *)
(* the predicate it equals, pc # done (Start is total at pc = start, and at  *)
(* pc = loop exactly one of the guards of ProcessRoom, LoopBreak and LoopEnd *)
(* holds).                                                                   *)

ManyRoomLists ==
    { [ i \in 1..n |-> shape ] : n \in 0..MaxManyRooms, shape \in RoomShapes }

InitPlace ==
    /\ \E sizes \in [ GroupKeys -> 0..MaxFewStudents ] :
          /\ sum_sizes(sizes, GroupKeys) <= MaxFewStudents
          /\ student_queryset = students_of(sizes)
    /\ rooms \in ManyRoomLists
    /\ distribution_strategy \in { "cycle", "block" }
    /\ seed = NoSeed
    /\ InitRun

RunsOn ==
    /\ WF_vars(LoopEnd)
    /\ []<>(pc = "done") \/ []<><<Next>>_vars

SpecPlace == InitPlace /\ [][Next]_vars /\ RunsOn

----------------------------------------------------------------------------
(* The two room allocators on their own: one room of any shape up to         *)
(* MaxGridSide x MaxGridSide, a queue of group (1, A) and a queue of group   *)
(* (2, B), and one call.                                                     *)

queue_of(year, section, n) == [ i \in 1..n |-> [ year |-> year, section |-> section, roll |-> i ] ]

InitRoom ==
    /\ pc = "room_input"
    /\ \E shape \in [ rows : 1..MaxGridSide, cols : 1..MaxGridSide ] : rooms = << shape >>
    /\ \E a, b \in 0..MaxQueueLen :
          /\ student_queryset = students_of([ k \in { <<1, "A">>, <<2, "B">> } |->
                                                  IF k = <<1, "A">> THEN a ELSE b ])
          /\ group_half_queues =
                 [ key \in GroupKeys |->
                     [ first |-> IF key = <<1, "A">> THEN queue_of(1, "A", a)
                                 ELSE IF key = <<2, "B">> THEN queue_of(2, "B", b)
                                 ELSE << >>,
                       second |-> << >> ] ]
    /\ max_per_group_in_room \in 0..MaxQueueLen
    /\ distribution_strategy = "cycle"
    /\ seed = NoSeed
    /\ persisted = << >>
    /\ rng_memo = NoMemo
    /\ first_run = NoRun
    /\ savepoint = << >>
    /\ validated = NoRequest
    /\ allocation = NoAllocation
    /\ next_half_for_group = [ key \in GroupKeys |-> "first" ]
    /\ seating_assignments = << >>
    /\ pairing_idx = 0
    /\ group_idx = 0
    /\ rooms_processed = 0
    /\ room_idx = 0
    /\ available_groups = {}
    /\ pairings = << >>
    /\ room_log = << >>
    /\ result = [ returned |-> FALSE, total_seats |-> 0, rooms_processed |-> 0 ]

room_frame == << student_queryset, rooms, distribution_strategy, persisted,
                 max_per_group_in_room, next_half_for_group, pairing_idx, group_idx,
                 rooms_processed, room_idx, available_groups, pairings, room_log,
                 result, seed, rng_memo, first_run, savepoint, validated, allocation >>

\* allocate_room_seats called with the two queue lengths as room limits
\* (limits = TRUE, as the driver calls it) or without room limits
AllocateTwoGroups ==
    /\ pc = "room_input"
    /\ pc' = "room_filled"
    /\ \E limits \in BOOLEAN :
          LET q1 == group_half_queues[<<1, "A">>].first
              q2 == group_half_queues[<<2, "B">>].first
          IN  \E out \in { allocate_room_seats(1, rooms[1], q1, q2, "A", max_per_group_in_room,
                                                IF limits THEN Len(q1) ELSE -1,
                                                IF limits THEN Len(q2) ELSE -1) } :
                /\ seating_assignments' = out.assignments
                /\ group_half_queues' =
                       put_half(put_half(group_half_queues, <<1, "A">>, "first", out.group1_deque),
                                <<2, "B">>, "first", out.group2_deque)
    /\ UNCHANGED room_frame

\* allocate_room_seats_single_year called with the queue length as room
\* limit (as the driver calls it) or without room limit
AllocateSingleYear ==
    /\ pc = "room_input"
    /\ pc' = "room_filled_single"
    /\ \E limits \in BOOLEAN :
          LET q1 == group_half_queues[<<1, "A">>].first
          IN  \E out \in { allocate_room_seats_single_year(1, rooms[1], q1, "A",
                                                            IF limits THEN Len(q1) ELSE -1) } :
                /\ seating_assignments' = out.assignments
                /\ group_half_queues' =
                       put_half(group_half_queues, <<1, "A">>, "first", out.year_deque)
    /\ UNCHANGED room_frame

NextRoom == AllocateTwoGroups \/ AllocateSingleYear

SpecRoom == InitRoom /\ [][NextRoom]_vars

----------------------------------------------------------------------------
(* Properties *)

Records == 1..Len(seating_assignments)

SameBench(i, j) ==
    /\ seating_assignments[i].room = seating_assignments[j].room
    /\ seating_assignments[i].bench_no = seating_assignments[j].bench_no

RoomRecords(r) == { i \in Records : seating_assignments[i].room = r }

\* C1: no two seat-assignment records that share the same room and bench
\* number belong to students of the same academic year.
C1_NoSameYearBench ==
    \A i, j \in Records :
        (i # j /\ SameBench(i, j)) =>
            seating_assignments[i].student.year # seating_assignments[j].student.year

\* a finished run with a bench whose two seats are both filled
C1_Witness ==
    /\ pc = "done"
    /\ \E i, j \in Records :
          /\ SameBench(i, j)
          /\ seating_assignments[i].seat_pos = "left"
          /\ seating_assignments[j].seat_pos = "right"

\* C2: each student appears in at most one seat-assignment record, after
\* any number of rooms processed.
C2_AtMostOnce ==
    \A i, j \in Records :
        i # j => seating_assignments[i].student # seating_assignments[j].student

\* two rooms processed, both seating students of one and the same group
C2_Witness ==
    /\ rooms_processed >= 2
    /\ \E i, j \in Records :
          /\ seating_assignments[i].room # seating_assignments[j].room
          /\ seating_assignments[i].student.year = seating_assignments[j].student.year
          /\ seating_assignments[i].student.section = seating_assignments[j].student.section

AllHalfQueuesEmpty ==
    \A key \in DOMAIN group_half_queues :
        group_half_queues[key].first = << >> /\ group_half_queues[key].second = << >>

\* C4: once every half-queue of every group is empty, the driver loop stops
\* and no later room receives any seat-assignment record.
C4_ExhaustionStop ==
    [][ (pc = "loop" /\ AllHalfQueuesEmpty) =>
            (pc' = "done" /\ seating_assignments' = seating_assignments
                          /\ room_log' = room_log /\ room_idx' = room_idx) ]_vars

\* a run that stopped with every student seated while rooms remained
C4_Witness ==
    /\ pc = "done"
    /\ AllHalfQueuesEmpty
    /\ seating_assignments # << >>
    /\ room_idx < Len(rooms)

RECURSIVE seats_of(_, _)
seats_of(room_list, n) ==
    IF n = 0 THEN 0
    ELSE room_list[n].rows * room_list[n].cols * 2 + seats_of(room_list, n - 1)

\* C6: the number of seat-assignment records is at most the sum over all
\* rooms of rows * cols * 2; within each room it is at most rows * cols * 2,
\* with every bench number in 1..rows*cols.
C6_CapacityBound ==
    /\ Len(seating_assignments) <= seats_of(rooms, Len(rooms))
    /\ \A r \in 1..Len(rooms) :
          Cardinality(RoomRecords(r)) <= rooms[r].rows * rooms[r].cols * 2
    /\ \A i \in Records :
          /\ seating_assignments[i].room \in 1..Len(rooms)
          /\ seating_assignments[i].bench_no \in
                 1..(rooms[seating_assignments[i].room].rows
                       * rooms[seating_assignments[i].room].cols)

\* the last room was filled on both sides of every bench and the half-queue
\* that fed its left seats still holds students
C6_Witness ==
    /\ room_log # << >>
    /\ LET e == room_log[Len(room_log)]
       IN  /\ e.mode = "pair"
           /\ Cardinality(RoomRecords(e.room)) = rooms[e.room].rows * rooms[e.room].cols * 2
           /\ group_half_queues[e.group1][e.g1_half] # << >>

Seated(s) == \E i \in Records : seating_assignments[i].student = s

BenchOccupied(r, b) ==
    \E i \in Records : seating_assignments[i].room = r /\ seating_assignments[i].bench_no = b

\* C3: at the end of a run a student is left without a seat assignment only
\* if no room of the room list still has a bench without any student on it.
C3_NoDropWhileCapacity ==
    (pc = "done" /\ \E s \in student_queryset : ~ Seated(s)) =>
        \A r \in 1..Len(rooms) :
            \A b \in 1..(rooms[r].rows * rooms[r].cols) : BenchOccupied(r, b)

\* the rolls of one group's students in placement order
RECURSIVE placed_rolls(_, _)
placed_rolls(key, recs) ==
    IF recs = << >> THEN << >>
    ELSE (IF << Head(recs).student.year, Head(recs).student.section >> = key
          THEN << Head(recs).student.roll >> ELSE << >>)
             \o placed_rolls(key, Tail(recs))

\* C5: under strategy "cycle" the students of every (year, section) group
\* are placed, in placement order, in ascending roll order: the placed
\* sequence is a prefix of the group's roll order.
C5_RollOrderCycle ==
    distribution_strategy = "cycle" =>
        \A key \in GroupKeys :
            LET placed == placed_rolls(key, seating_assignments)
            IN  \A n \in 1..Len(placed) : placed[n] = n

\* C7: one (year, section) group of n students alone and a first room of at
\* least n benches: n left-seat records on benches 1..n of room 1, no
\* right-seat record, and no record in any later room.
C7_SingleYearScenario ==
    \A key \in GroupKeys :
        LET n == Cardinality(student_queryset)
        IN  ( /\ pc = "done"
              /\ n >= 1
              /\ \A s \in student_queryset : << s.year, s.section >> = key
              /\ Len(rooms) >= 1
              /\ rooms[1].rows * rooms[1].cols >= n )
            => /\ Len(seating_assignments) = n
               /\ \A i \in 1..n :
                     /\ seating_assignments[i].room = 1
                     /\ seating_assignments[i].bench_no = i
                     /\ seating_assignments[i].seat_pos = "left"

\* the six-pair cycle of the scenario
SixCycle ==
    << << <<1, "A">>, <<2, "B">> >>, << <<2, "B">>, <<3, "A">> >>,
       << <<3, "A">>, <<1, "B">> >>, << <<1, "B">>, <<2, "A">> >>,
       << <<2, "A">>, <<3, "B">> >>, << <<3, "B">>, <<1, "A">> >> >>

PairEntries == SelectSeq(room_log, LAMBDA e : e.mode = "pair")

\* position (0-based) in the six-pair cycle, 6 when the pair is none of them
cycle_pos(pair) ==
    IF \E i \in 0..5 : SixCycle[i + 1] = pair
    THEN CHOOSE i \in 0..5 : SixCycle[i + 1] = pair
    ELSE 6

\* both groups of the cycle's pair at position i had students before room e
valid_at(e, i) ==
    /\ e.remaining_before[SixCycle[i + 1][1]] > 0
    /\ e.remaining_before[SixCycle[i + 1][2]] > 0

\* C8: with all six groups populated, the first room uses pairing 0 of the
\* six-pair cycle and every later room that uses a pairing uses the next
\* pairing of the cycle after the one used before, skipping only pairings in
\* which one of the two groups has no students left.
C8_RoundRobinCycle ==
    \A k \in 1..Len(PairEntries) :
        LET e == PairEntries[k]
            start == IF k = 1 THEN 0
                     ELSE (cycle_pos(<< PairEntries[k - 1].group1,
                                        PairEntries[k - 1].group2 >>) + 1) % 6
            steps == { d \in 0..5 : valid_at(e, (start + d) % 6) }
        IN  steps # {} =>
                LET d == CHOOSE x \in steps : \A y \in steps : x <= y
                IN  << e.group1, e.group2 >> = SixCycle[((start + d) % 6) + 1]

\* the years and sections of the key set handed to the pairing builder
YearsGiven == { g[1] : g \in available_groups }

SectionsGiven(y) == { sec \in SectionLabels : << y, sec >> \in available_groups }

FirstSection(y) ==
    CHOOSE sec \in SectionsGiven(y) : \A other \in SectionsGiven(y) : ord(sec) <= ord(other)

\* C9: for three distinct years y1 < y2 < y3 the builder returns the cycle
\* (y1,A)+(y2,B), (y2,B)+(y3,A), (y3,A)+(y1,B), (y1,B)+(y2,A), (y2,A)+(y3,B),
\* (y3,B)+(y1,A) restricted, in that order, to the pairs whose two groups are
\* both given; only when that restriction is empty it returns the fallback
\* pairs (y1,y2), (y2,y3), (y3,y1), each with the first section of each year.
C9_ThreeYearCycle ==
    (pc = "pairings_built" /\ Cardinality(YearsGiven) = 3) =>
        LET y1 == CHOOSE y \in YearsGiven : \A z \in YearsGiven : y <= z
            y3 == CHOOSE y \in YearsGiven : \A z \in YearsGiven : y >= z
            y2 == CHOOSE y \in YearsGiven : y # y1 /\ y # y3
            left  == << <<y1, "A">>, <<y2, "B">>, <<y3, "A">>, <<y1, "B">>, <<y2, "A">>, <<y3, "B">> >>
            right == << <<y2, "B">>, <<y3, "A">>, <<y1, "B">>, <<y2, "A">>, <<y3, "B">>, <<y1, "A">> >>
            kept  == { i \in 1..6 : left[i] \in available_groups /\ right[i] \in available_groups }
            nth(n) == CHOOSE i \in kept : Cardinality({ j \in kept : j <= i }) = n
        IN  IF kept # {}
            THEN /\ Len(pairings) = Cardinality(kept)
                 /\ \A n \in 1..Len(pairings) :
                       pairings[n] = << left[nth(n)], right[nth(n)] >>
            ELSE pairings = << << <<y1, FirstSection(y1)>>, <<y2, FirstSection(y2)>> >>,
                               << <<y2, FirstSection(y2)>>, <<y3, FirstSection(y3)>> >>,
                               << <<y3, FirstSection(y3)>>, <<y1, FirstSection(y1)>> >> >>

\* three years of which some, but not all, pairs of the cycle are present
C9_Witness ==
    /\ pc = "pairings_built"
    /\ Cardinality(YearsGiven) = 3
    /\ Len(pairings) = 2
    /\ pairings[1] = << <<1, "A">>, <<2, "B">> >>
    /\ pairings[2] = << <<3, "B">>, <<1, "A">> >>

\* three years without any pair of the cycle, one year with two sections
C9_WitnessFallback ==
    /\ pc = "pairings_built"
    /\ available_groups = { <<1, "B">>, <<1, "C">>, <<2, "C">>, <<3, "C">> }
    /\ pairings = << << <<1, "B">>, <<2, "C">> >>, << <<2, "C">>, <<3, "C">> >>,
                     << <<3, "C">>, <<1, "B">> >> >>

C11_Determinism ==
    ( /\ pc = "done"
      /\ first_run.done
      /\ \/ distribution_strategy = "cycle"
         \/ distribution_strategy = "block" /\ seed \in Seeds /\ first_run.seed = seed )
    => seating_assignments = first_run.records

\* two finished block runs with one integer seed whose shuffle moved a
\* student: the first record is not the student of roll 1
C11_Witness ==
    /\ pc = "done"
    /\ first_run.done
    /\ distribution_strategy = "block"
    /\ seed = 0 /\ first_run.seed = 0
    /\ seating_assignments # << >>
    /\ seating_assignments[1].student.roll # 1

\* two finished cycle runs, the first without seed, the second with one
C11_WitnessCycle ==
    /\ pc = "done"
    /\ first_run.done
    /\ distribution_strategy = "cycle"
    /\ first_run.seed = NoSeed /\ seed = 7
    /\ seating_assignments # << >>

\* without a seed two block runs can differ
C11_UnseededDiffer ==
    /\ pc = "done"
    /\ first_run.done
    /\ distribution_strategy = "block"
    /\ seed = NoSeed /\ first_run.seed = NoSeed
    /\ seating_assignments # first_run.records

\* the years that had students before the room of a log entry
YearsBefore(e) == { k[1] : k \in { g \in DOMAIN e.remaining_before : e.remaining_before[g] > 0 } }

\* C12: when a room is reached while two or more years still have students
\* and no pairing with both groups non-empty is found (the pairing list
\* being empty included), the run is aborted with an error: it is in the
\* raised state, and that room is the last one the loop has visited.
C12_FatalInvariantViolation ==
    \A k \in 1..Len(room_log) :
        (Cardinality(YearsBefore(room_log[k])) >= 2 /\ room_log[k].mode = "skip") =>
            (pc = "raised" /\ k = Len(room_log))

\* C13: when a failure occurs at any point between the deletion of the
\* previously persisted seat assignments and the end of the bulk insert, the
\* persisted assignments are exactly the old set.
C13_AtomicReplace ==
    pc = "rolled_back" => persisted = OldAssignments

\* the bulk insert failed after the old rows were deleted and part of the
\* new rows (at least two were to be written) would have been in place
C13_Witness ==
    /\ pc = "rolled_back"
    /\ Len(seating_assignments) >= 2
    /\ savepoint = OldAssignments
    /\ persisted = OldAssignments

\* C14 as stated: the previously persisted assignments of the allocation
\* are unchanged until the bulk write happens, also in a run that returns
\* early or writes nothing.
C14_NoEffectBeforeBulkWrite ==
    (pc \in { "start", "loop" } \/ (pc = "done" /\ seating_assignments = << >>))
        => persisted = OldAssignments

\* C14, amended: generate_allocation first deletes the previously persisted
\* assignments of the allocation; from then on until the bulk write the
\* persisted set is empty, a run that returns early or seats nobody leaves
\* it empty, and the new records are persisted by the final bulk write only.
C14_DeleteThenBulkWrite ==
    /\ pc = "start" => persisted = OldAssignments
    /\ pc = "loop" => persisted = << >>
    /\ pc = "done" => persisted = seating_assignments

\* records have been accumulated and the bulk write has not happened yet
C14_Witness ==
    /\ pc = "loop"
    /\ seating_assignments # << >>
    /\ persisted = << >>

\* a run that returned early, without students, and emptied the old rows
C14_WitnessEarlyReturn ==
    /\ pc = "done"
    /\ student_queryset = {}
    /\ Len(rooms) >= 1
    /\ persisted = << >>

\* C15: every run returns a summary; total seats filled equals the number
\* of seat-assignment records produced; rooms_processed equals the number of
\* rooms that received at least one record; the number of students without
\* a seat equals the input total minus total seats filled, whatever the
\* capacity.
C15_Summary ==
    /\ pc \in { "start", "loop", "done" }
    /\ pc = "done" =>
          /\ result.returned
          /\ result.total_seats = Len(seating_assignments)
          /\ result.rooms_processed =
                 Cardinality({ r \in 1..Len(rooms) : RoomRecords(r) # {} })
          /\ Cardinality({ s \in student_queryset : ~ Seated(s) })
                 = Cardinality(student_queryset) - result.total_seats

\* a finished run that seated students in two rooms and left others without
\* a seat: the students exceed the capacity
C15_Witness ==
    /\ pc = "done"
    /\ result.rooms_processed = 2
    /\ result.total_seats >= 2
    /\ result.total_seats < Cardinality(student_queryset)

\* a finished run whose rooms were visited and received no record
C15_WitnessEmptyRooms ==
    /\ pc = "done"
    /\ Len(room_log) = 2
    /\ result.rooms_processed = 0

\* C16: every seat-assignment record of every run references an actual
\* student of the input; no record with an empty student is produced, in
\* single-year mode or in two-group mode.
C16_OnlyOccupiedSeats ==
    \A i \in Records :
        /\ seating_assignments[i].student # NoStudent
        /\ seating_assignments[i].student \in student_queryset

\* a run with a single-year room, whose right seats stay empty, and a
\* two-group room with a bench that holds a left student only
C16_Witness ==
    /\ \E k \in 1..Len(room_log) : room_log[k].mode = "single" /\ room_log[k].group1_used >= 1
    /\ \E k \in 1..Len(room_log) :
          /\ room_log[k].mode = "pair"
          /\ room_log[k].group1_used > room_log[k].group2_used

group_size(key) ==
    Cardinality({ s \in student_queryset : << s.year, s.section >> = key })

side_records(recs, seat_pos) == SelectSeq(recs, LAMBDA r : r.seat_pos = seat_pos)

\* one side of a two-group room: the first min(Len(queue), benches) students
\* of the queue sit on the benches 1..min(Len(queue), benches), in order,
\* and the queue is left with the rest
side_filled(recs, queue, rest, used, benches, room_no) ==
    LET n == min(Len(queue), benches)
    IN  /\ Len(recs) = n
        /\ used = n
        /\ \A i \in 1..n :
              /\ recs[i].room = room_no
              /\ recs[i].bench_no = i
              /\ recs[i].student = queue[i]
        /\ rest = SubSeq(queue, n + 1, Len(queue))

C18_WitnessLongQueue ==
    \E k \in 1..Len(room_log) :
        /\ room_log[k].mode = "pair"
        /\ room_log[k].group1_remaining > room_log[k].group1_used

\* the step has run the body of the loop for a room and seated students
RoomStep ==
    /\ Len(room_log') = Len(room_log) + 1
    /\ room_log'[Len(room_log')].mode \in { "single", "pair" }

\* group g drew from the half its own pointer designated before the step if
\* that half was non-empty, from the other half if it was empty
follows_pointer(g, drew) ==
    IF group_half_queues[g][next_half_for_group[g]] # << >>
    THEN drew = next_half_for_group[g]
    ELSE drew = other_half(next_half_for_group[g])

\* C19 as stated: in every room each group that supplies students draws from
\* the half its next_half_for_group pointer designated before the room
\* whenever that half is non-empty, from the other half only when it is
\* empty, and after the room its pointer designates the half opposite to the
\* one it drew from.
C19_HalfPointer ==
    [][ RoomStep =>
            LET e == room_log'[Len(room_log')]
            IN  /\ follows_pointer(e.group1, e.g1_half)
                /\ next_half_for_group'[e.group1] = other_half(e.g1_half)
                /\ e.mode = "pair" =>
                      /\ follows_pointer(e.group2, e.g2_half)
                      /\ next_half_for_group'[e.group2] = other_half(e.g2_half) ]_vars

\* C19, amended: in every room the group of a single-year room and the first
\* group of a pairing draw from the half their pointer designated before the
\* room whenever that half is non-empty, from the other half only when it is
\* empty; the second group of a pairing is not asked for its pointer; after
\* the room the pointer of every group that supplied students designates the
\* half opposite to the one it drew from, and no other pointer has changed.
C19_HalfPointerFirstGroup ==
    [][ RoomStep =>
            LET e == room_log'[Len(room_log')]
            IN  /\ follows_pointer(e.group1, e.g1_half)
                /\ next_half_for_group'[e.group1] = other_half(e.g1_half)
                /\ e.mode = "pair" =>
                      next_half_for_group'[e.group2] = other_half(e.g2_half)
                /\ \A g \in DOMAIN next_half_for_group :
                      g \notin { e.group1, e.group2 } =>
                          next_half_for_group'[g] = next_half_for_group[g] ]_vars

\* after its first room, a pairing whose second group drew from its "second"
\* half although its pointer designated "first" and it had two students or
\* more, so that its "first" half was not empty
C19_Witness ==
    /\ Len(room_log) = 1
    /\ room_log[1].mode = "pair"
    /\ room_log[1].next_half_before[room_log[1].group2] = "first"
    /\ room_log[1].remaining_before[room_log[1].group2] >= 2
    /\ room_log[1].g2_half = "second"
    /\ next_half_for_group[room_log[1].group2] = "first"
    /\ next_half_for_group[room_log[1].group1] = "second"

\* C20: in every two-group room, group 2 draws from the half opposite to
\* group 1's preferred half whenever that half of group 2 is non-empty (from
\* the other half only when it is empty); so when neither group has to fall
\* back, one group draws from its "first" half and the other from its
\* "second" half.
C20_ComplementaryHalves ==
    [][ (RoomStep /\ room_log'[Len(room_log')].mode = "pair") =>
            LET e == room_log'[Len(room_log')]
                opposite == IF e.g1_pref = "first" THEN "second" ELSE "first"
            IN  /\ e.g1_pref = next_half_for_group[e.group1]
                /\ e.g2_pref = opposite
                /\ IF group_half_queues[e.group2][opposite] # << >>
                   THEN e.g2_half = opposite
                   ELSE e.g2_half = e.g1_pref
                /\ (e.g1_half = e.g1_pref /\ e.g2_half = e.g2_pref) =>
                      { e.g1_half, e.g2_half } = { "first", "second" } ]_vars

\* a pairing in which neither group fell back: group 1 drew from "second",
\* group 2 from "first"
C20_Witness ==
    \E k \in 1..Len(room_log) :
        /\ room_log[k].mode = "pair"
        /\ room_log[k].g1_half = "second" /\ room_log[k].g1_pref = "second"
        /\ room_log[k].g2_half = "first" /\ room_log[k].g2_pref = "first"

\* a pairing in which group 2 fell back to the half group 1 prefers
C20_WitnessFallback ==
    \E k \in 1..Len(room_log) :
        /\ room_log[k].mode = "pair"
        /\ room_log[k].g2_half = room_log[k].g1_pref

\* the run has split the queues and has not entered the loop body yet
JustSplit == pc = "loop" /\ room_log = << >>

\* C21: of every group queue of n students the "first" half-queue is the
\* first ceil(n/2) students in queue order and the "second" half-queue the
\* remaining floor(n/2) students in queue order: first followed by second is
\* the queue (the roll order under "cycle", one of the shuffled orders under
\* "block"), n = 0 gives two empty halves, and an odd n puts the extra
\* student in "first".
C21_HalfSplit ==
    JustSplit =>
        \A key \in DOMAIN group_half_queues :
            LET n == group_size(key)
                first == group_half_queues[key].first
                second == group_half_queues[key].second
            IN  /\ Len(first) = (n + 1) \div 2
                /\ Len(second) = n \div 2
                /\ Len(first) + Len(second) = n
                /\ n = 0 => (first = << >> /\ second = << >>)
                /\ n % 2 = 1 => Len(first) = Len(second) + 1
                /\ IF distribution_strategy = "block"
                   THEN first \o second \in block_orders(grouped_list(student_queryset, key))
                   ELSE first \o second = grouped_list(student_queryset, key)

\* the queues of a group of three students and of a group of one student
\* have just been split, other groups being empty
C21_Witness ==
    /\ JustSplit
    /\ \E key \in DOMAIN group_half_queues :
          Len(group_half_queues[key].first) = 2 /\ Len(group_half_queues[key].second) = 1
    /\ \E key \in DOMAIN group_half_queues :
          Len(group_half_queues[key].first) = 1 /\ group_half_queues[key].second = << >>
    /\ \E key \in DOMAIN group_half_queues :
          group_half_queues[key].first = << >> /\ group_half_queues[key].second = << >>

StudentYears == { s.year : s \in student_queryset }

\* the records of room i
records_of_room(i) == SelectSeq(seating_assignments, LAMBDA r : r.room = i)

\* C23: provided the students' years are within three distinct values and
\* every room has at least one bench, every room the driver reaches while
\* students remain receives at least one seat assignment (at least two in
\* two-group mode); hence the rooms that receive assignments form a prefix
\* of the room list and rooms_processed equals the number of rooms visited
\* before the stop.
C23_RoomProgress ==
    ( /\ pc \in { "loop", "done" }
      /\ Cardinality(StudentYears) <= 3
      /\ \A i \in 1..Len(rooms) : total_benches(rooms[i]) >= 1 )
    => /\ \A i \in 1..Len(room_log) :
             /\ room_log[i].room = i
             /\ room_log[i].mode # "skip"
             /\ Len(records_of_room(i)) >= 1
             /\ room_log[i].mode = "pair" => Len(records_of_room(i)) >= 2
       /\ { seating_assignments[i].room : i \in Records } = 1..Len(room_log)
       /\ rooms_processed = Len(room_log)
       /\ Len(room_log) = room_idx

\* a finished run over three years: a two-group room, then a single-year
\* room, both counted
C23_Witness ==
    /\ pc = "done"
    /\ Cardinality(StudentYears) = 3
    /\ Len(room_log) = 2
    /\ room_log[1].mode = "pair"
    /\ room_log[2].mode = "single"
    /\ result.rooms_processed = 2

\* a run stopped before the end of the room list because no student remains
C23_WitnessStop ==
    /\ pc = "done"
    /\ Len(room_log) = 1
    /\ Len(rooms) = 2
    /\ rooms_processed = 1
    /\ seating_assignments # << >>

\* the run is over and every student has exactly one seat-assignment record
AllSeatedOnce ==
    /\ pc = "done"
    /\ \A s \in student_queryset :
          Cardinality({ i \in Records : seating_assignments[i].student = s }) = 1
    /\ Len(seating_assignments) = Cardinality(student_queryset)

\* at least as many rooms, each with a bench, as students, of at most three years
EnoughRooms ==
    /\ Len(rooms) >= Cardinality(student_queryset)
    /\ \A i \in 1..Len(rooms) : total_benches(rooms[i]) >= 1
    /\ Cardinality(StudentYears) <= 3

\* C24: if the room list contains at least as many rooms (each with at
\* least one bench) as there are students, and years are within three
\* distinct values, then the run ends with every student seated exactly
\* once; total remaining strictly decreases with every room processed
\* until it reaches zero.
C24_EventualPlacement ==
    /\ EnoughRooms => <>AllSeatedOnce
    /\ [][ ( EnoughRooms /\ pc = "loop" /\ room_idx' = room_idx + 1 )
            => total_remaining(group_half_queues') < total_remaining(group_half_queues) ]_vars

\* three students of one group, each seated alone in a room of their own:
\* three rooms of one bench, none left over
C24_Witness ==
    /\ AllSeatedOnce
    /\ Cardinality(student_queryset) = 3
    /\ Len(rooms) = 3
    /\ rooms_processed = 3
    /\ \A i \in 1..3 : Len(records_of_room(i)) = 1

\* the (year, section) groups of the students seated at seat_pos in room i
groups_seated(i, seat_pos) ==
    { << seating_assignments[k].student.year, seating_assignments[k].student.section >> :
        k \in { j \in Records : /\ seating_assignments[j].room = i
                                  /\ seating_assignments[j].seat_pos = seat_pos } }

\* C25: in every room of every run, all left-seat records belong to
\* students of one single (year, section) group and all right-seat records
\* belong to students of one single (year, section) group of a different
\* year; a room allocated while only one year remains has left-seat records
\* only.
C25_RoomHomogeneity ==
    /\ \A i \in 1..Len(rooms) :
          /\ Cardinality(groups_seated(i, "left")) <= 1
          /\ Cardinality(groups_seated(i, "right")) <= 1
          /\ \A g \in groups_seated(i, "left") : \A h \in groups_seated(i, "right") : g[1] # h[1]
          /\ \A k \in Records :
                seating_assignments[k].room = i => seating_assignments[k].seat_pos \in { "left", "right" }
    /\ \A i \in 1..Len(room_log) :
          Cardinality(YearsBefore(room_log[i])) = 1
          => /\ groups_seated(i, "right") = {}
             /\ groups_seated(i, "left") # {}

\* a room with two left seats and a right seat taken, followed by a room
\* allocated when one year was left
C25_Witness ==
    /\ pc = "done"
    /\ Len(room_log) = 2
    /\ Len(side_records(records_of_room(1), "left")) = 2
    /\ Len(side_records(records_of_room(1), "right")) = 1
    /\ Cardinality(YearsBefore(room_log[2])) = 1
    /\ Len(records_of_room(2)) = 1

\* C26: for a room list of distinct rooms (a room is its place in the
\* list), no two seat-assignment records of a run share the same (room,
\* bench number, left/right position), and therefore none share the same
\* (room, row, column, position) that the SeatAssignment model declares
\* unique per allocation.
C26_SeatUniqueness ==
    \A i, j \in Records :
        i # j =>
          /\ << seating_assignments[i].room, seating_assignments[i].bench_no,
                seating_assignments[i].seat_pos >>
               # << seating_assignments[j].room, seating_assignments[j].bench_no,
                    seating_assignments[j].seat_pos >>
          /\ << seating_assignments[i].room, seating_assignments[i].row,
                seating_assignments[i].column, seating_assignments[i].position >>
               # << seating_assignments[j].room, seating_assignments[j].row,
                    seating_assignments[j].column, seating_assignments[j].position >>

\* a finished run with two records on one bench, two records on the same
\* side of two benches of one room, and two records on the same bench and
\* side of two rooms
C26_Witness ==
    /\ pc = "done"
    /\ \E i, j \in Records :
          /\ seating_assignments[i].room = seating_assignments[j].room
          /\ seating_assignments[i].bench_no = seating_assignments[j].bench_no
          /\ seating_assignments[i].seat_pos # seating_assignments[j].seat_pos
    /\ \E i, j \in Records :
          /\ seating_assignments[i].room = seating_assignments[j].room
          /\ seating_assignments[i].bench_no # seating_assignments[j].bench_no
          /\ seating_assignments[i].seat_pos = seating_assignments[j].seat_pos
          /\ seating_assignments[i].row # seating_assignments[j].row
    /\ \E i, j \in Records :
          /\ seating_assignments[i].room # seating_assignments[j].room
          /\ seating_assignments[i].bench_no = seating_assignments[j].bench_no
          /\ seating_assignments[i].seat_pos = seating_assignments[j].seat_pos

\* group g occurs in a pairing of the list prs
in_pairings(g, prs) == \E i \in 1..Len(prs) : prs[i][1] = g \/ prs[i][2] = g

\* the groups with remaining students before the room of log entry e
GroupsBefore(e) == { g \in DOMAIN e.remaining_before : e.remaining_before[g] > 0 }

\* C27 (as stated): whenever two or more years still have students, every
\* group with remaining students occurs in at least one pairing of the list
\* build_dynamic_pairings returns for that room.
C27_PairingCoverage ==
    \A i \in 1..Len(room_log) :
        Cardinality(YearsBefore(room_log[i])) >= 2
        => \A g \in GroupsBefore(room_log[i]) : in_pairings(g, room_log[i].pairings)

\* C27 (amended): whenever two years still have students, every group with
\* remaining students occurs in at least one pairing of the list; whenever
\* three years still have students, the list is not empty, names only
\* groups with remaining students, and (sections being A and B) every one
\* of the three years occurs in it, but a group may be missing from it.
C27_PairingCoverageByYear ==
    \A i \in 1..Len(room_log) :
        LET e == room_log[i]
        IN  /\ Cardinality(YearsBefore(e)) = 2
               => \A g \in GroupsBefore(e) : in_pairings(g, e.pairings)
            /\ Cardinality(YearsBefore(e)) = 3
               => /\ e.pairings # << >>
                  /\ \A k \in 1..Len(e.pairings) :
                        e.pairings[k][1] \in GroupsBefore(e) /\ e.pairings[k][2] \in GroupsBefore(e)
                  /\ \A y \in YearsBefore(e) :
                        \E g \in GroupsBefore(e) : g[1] = y /\ in_pairings(g, e.pairings)

\* a room for which three years remain and the list leaves out a group
\* that has students
C27_Witness ==
    \E i \in 1..Len(room_log) :
        /\ Cardinality(YearsBefore(room_log[i])) = 3
        /\ room_log[i].mode = "pair"
        /\ \E g \in GroupsBefore(room_log[i]) : ~ in_pairings(g, room_log[i].pairings)

\* a room for which two years remain, one of them with two sections
C27_WitnessTwoYears ==
    \E i \in 1..Len(room_log) :
        /\ Cardinality(YearsBefore(room_log[i])) = 2
        /\ Cardinality(GroupsBefore(room_log[i])) = 3
        /\ Len(room_log[i].pairings) = 2

\* student s is in the first ceil(n / 2) of its group in roll order
in_first_half(s) == s.roll <= ceil_div(group_size(<< s.year, s.section >>), 2)

\* the seat of a record, the group of its student and the half of the group
\* the student belongs to
occupancy(r) ==
    [ room |-> r.room, bench_no |-> r.bench_no, seat_pos |-> r.seat_pos,
      row |-> r.row, column |-> r.column, position |-> r.position,
      bench_type |-> r.bench_type,
      year |-> r.student.year, section |-> r.student.section,
      first_half |-> in_first_half(r.student) ]

\* C28: for a fixed student list and room list, the set of occupied seats
\* (room, bench number, position) and the (year, section) group of the
\* student in each occupied seat are the same under strategy "cycle" and
\* under strategy "block" with any seed; block shuffling never moves a
\* student across the ceil(n/2) half boundary, so only which student of a
\* half-queue sits in which of that half-queue's seats can differ.
C28_OccupancyIndependent ==
    /\ ( pc = "done" /\ first_run.done )
       => /\ Len(seating_assignments) = Len(first_run.records)
          /\ \A i \in Records :
                occupancy(seating_assignments[i]) = occupancy(first_run.records[i])
    /\ JustSplit
       => \A key \in DOMAIN group_half_queues :
             /\ \A i \in 1..Len(group_half_queues[key].first) :
                   in_first_half(group_half_queues[key].first[i])
             /\ \A i \in 1..Len(group_half_queues[key].second) :
                   ~ in_first_half(group_half_queues[key].second[i])

\* a finished cycle run followed by a finished block run that seats another
\* student of the same half in the first seat
C28_Witness ==
    /\ pc = "done"
    /\ first_run.done
    /\ first_run.strategy = "cycle"
    /\ distribution_strategy = "block"
    /\ seed = 7
    /\ seating_assignments # << >>
    /\ seating_assignments[1].student # first_run.records[1].student
    /\ seating_assignments # first_run.records

\* the students of the records of recs, in order
students_in(recs) == [ i \in 1..Len(recs) |-> recs[i].student ]

\* the records a step appends that seat students of group key
new_records_of(key) ==
    SelectSeq(SubSeq(seating_assignments', Len(seating_assignments) + 1,
                     Len(seating_assignments')),
              LAMBDA r : << r.student.year, r.student.section >> = key)

\* the step shortens every half-queue of group key from the front only, and
\* the students it removes are the students of the records it appends for
\* the group, in queue order and on increasing bench numbers
front_removal(key) ==
    LET old == group_half_queues[key]
        new == group_half_queues'[key]
        m1 == Len(old.first) - Len(new.first)
        m2 == Len(old.second) - Len(new.second)
        recs == new_records_of(key)
    IN  /\ m1 >= 0 /\ m2 >= 0
        /\ m1 = 0 \/ m2 = 0
        /\ new.first = SubSeq(old.first, m1 + 1, Len(old.first))
        /\ new.second = SubSeq(old.second, m2 + 1, Len(old.second))
        /\ students_in(recs) = SubSeq(old.first, 1, m1) \o SubSeq(old.second, 1, m2)
        /\ \A i, j \in 1..Len(recs) : i < j => recs[i].bench_no < recs[j].bench_no

\* s has a record in an earlier room than record t, or in the same room on
\* a lower bench number
seated_before(s, t) ==
    \E i \in Records :
        /\ seating_assignments[i].student = s
        /\ \/ seating_assignments[i].room < t.room
           \/ /\ seating_assignments[i].room = t.room
              /\ seating_assignments[i].bench_no < t.bench_no

\* C29: for any two students s before t in the same half-queue of the same
\* group, if t is seated then s is seated too, either in an earlier room or
\* in the same room on a lower bench number; students are only ever removed
\* from the front of a half-queue. (Under "cycle" a half-queue is in roll
\* order, which states the first part on the records; the order of a
\* shuffled half-queue is the order it has when it is split, and every step
\* of the loop removes a prefix of it, seated in that order.)
C29_HalfQueueFIFO ==
    /\ [][ ( pc = "loop" /\ pc' = "loop" )
            => \A key \in DOMAIN group_half_queues : front_removal(key) ]_vars
    /\ []( distribution_strategy = "cycle"
           => \A k \in Records :
                 LET t == seating_assignments[k].student
                 IN  \A s \in student_queryset :
                       ( /\ s.year = t.year /\ s.section = t.section
                         /\ in_first_half(s) = in_first_half(t)
                         /\ s.roll < t.roll )
                       => seated_before(s, seating_assignments[k]) )

\* a room of a block run that has seated the two students of a shuffled
\* half-queue in queue order: the student of roll 2 on bench 1, the student
\* of roll 1 on bench 2
C29_Witness ==
    /\ distribution_strategy = "block"
    /\ \E i, j \in Records :
          /\ seating_assignments[i].room = 1 /\ seating_assignments[j].room = 1
          /\ seating_assignments[i].seat_pos = seating_assignments[j].seat_pos
          /\ seating_assignments[i].bench_no = 1 /\ seating_assignments[j].bench_no = 2
          /\ seating_assignments[i].student.year = seating_assignments[j].student.year
          /\ seating_assignments[i].student.section = seating_assignments[j].student.section
          /\ seating_assignments[i].student.roll = 2
          /\ seating_assignments[j].student.roll = 1

\* a cycle run that seats the second student of a half-queue two rooms
\* after the first, the room in between drawing from the other half
C29_WitnessNextRoom ==
    /\ distribution_strategy = "cycle"
    /\ \E i, j \in Records :
          /\ seating_assignments[i].student.year = seating_assignments[j].student.year
          /\ seating_assignments[i].student.section = seating_assignments[j].student.section
          /\ in_first_half(seating_assignments[i].student)
          /\ in_first_half(seating_assignments[j].student)
          /\ seating_assignments[i].student.roll = 1
          /\ seating_assignments[j].student.roll = 2
          /\ seating_assignments[i].room = 1
          /\ seating_assignments[j].room = 3

\* the view has called generate_allocation for the request
Called == pc \in { "start", "loop", "done" }

C30_NonZeroSeedPassThrough ==
    /\ Called
       => /\ seed = ( IF validated.random_seed = 0 THEN NoSeed ELSE validated.random_seed )
          /\ allocation.random_seed = seed
    /\ ( /\ pc = "done" /\ first_run.done
         /\ distribution_strategy = "block"
         /\ validated.random_seed \in Seeds \ { 0 } )
       => seating_assignments = first_run.records

\* two answered block-mode requests with random_seed 0 whose records differ
C30_ZeroSeedDiffers ==
    /\ pc = "done" /\ first_run.done
    /\ distribution_strategy = "block"
    /\ validated.random_seed = 0
    /\ seed = NoSeed
    /\ allocation.random_seed = NoSeed
    /\ seating_assignments # first_run.records

====
